---------------------------- MODULE Spec2Model ----------------------------
(***************************************************************************)
(* The BasicAdder market-making strategy of examples/basic_adding_2.py     *)
(* (depth-based quotes with a gap check) and examples/basic_adding_3.py    *)
(* (Avellaneda-Stoikov quotes), with the exchange they talk to.            *)
(*                                                                         *)
(* Threads.  The two subscription callbacks (on_book_update and            *)
(* on_user_events) are run by the one websocket thread of Info, one        *)
(* message at a time; poll runs on its own thread (threading.Thread).      *)
(* Every blocking gateway call (exchange.order, exchange.cancel,           *)
(* info.open_orders, info.user_state) is a point where the other thread,   *)
(* the exchange and the clock may move; the code between two calls is one  *)
(* step.  An exception that leaves a callback is logged by the websocket   *)
(* thread, which goes on with the next message; one that leaves poll ends  *)
(* the poll thread.                                                        *)
(*                                                                         *)
(* Numbers.  Prices are fixed-point integers: the depth variant counts in  *)
(* 1/4000 dollar, the Avellaneda-Stoikov variant in 1/40000000 dollar      *)
(* (2.5e-8), so that every product and quotient the code computes on the   *)
(* books below is exact.                                                   *)
(*                                                                         *)
(* Time.  Timestamps are milliseconds as in the code, read relative to the *)
(* present: get_timestamp_ms() is 0 and a step of the clock (TICK_MS)      *)
(* moves every stored timestamp TICK_MS into the past.  A timestamp older  *)
(* than the threshold it is compared with, plus one step, is kept at that  *)
(* age.  The clock moves between callbacks and reconciliation cycles: a    *)
(* gateway call takes less than one step of the clock.                     *)
(***************************************************************************)
EXTENDS Integers, FiniteSets, Sequences, TLC

VARIABLES
    variant,        \* which example file runs: V2 or V3
    position,       \* self.position (None or a float)
    provide_state,  \* self.provide_state: side -> ProvideState
    recently_cancelled_oid_to_time, \* self.recently_cancelled_oid_to_time
    ws,             \* the websocket thread: where its callback stands, its locals
    poller,         \* the poll thread: where it stands, its locals
    exch_orders,    \* the exchange: the orders info.open_orders lists
    exch_position,  \* the exchange: the account's signed position in COIN
    next_oid,       \* the exchange: the next order id it hands out
    pending_fills,  \* fill notifications sent by the exchange, not yet delivered
    fill_unrefreshed, \* a fill was delivered and poll has not set position since
    recon,          \* what the last reconciliation scan listed and cancelled
    reconnect       \* basic_adding_3: the call of reconnect() that main makes

vars == <<variant, position, provide_state, recently_cancelled_oid_to_time,
          ws, poller, exch_orders, exch_position, next_oid, pending_fills,
          fill_unrefreshed, recon, reconnect>>

---------------------------------------------------------------------------
(* Bounds of the model *)

MaxOid == 2         \* the exchange accepts at most MaxOid orders
MaxPendingFills == 1

\* The largest reconnect_attempts a BasicAdder (basic_adding_3) is built with.
MaxReconnectAttempts == 5

(* Program constants *)

V2 == "basic_adding_2"
V3 == "basic_adding_3"

get_timestamp_ms == 0
IN_FLIGHT_TIMEOUT_MS == 10000
RETENTION_MS == 30000
POLL_SLEEP_MS == 10000
MIN_NOTIONAL == 10

\* One step of the clock; open_orders lists a cancelled order for less than two.
TICK_MS == POLL_SLEEP_MS
LISTING_LAG_MS == 2 * TICK_MS

DEPTH_NUM == 1              \* DEPTH = 0.001 = DEPTH_NUM / DEPTH_DEN
DEPTH_DEN == 1000
DEVIATION_NUM == 1          \* ALLOWABLE_DEVIATION = 0.5
DEVIATION_DEN == 2
MAX_POSITION_2 == 20
MAX_POSITION_3 == 100

GAMMA_PPM == 5000           \* GAMMA = 0.005
K_PPM == 1000               \* K = 0.001
R_PPM == 500                \* R = 0.0005
VOL_PCT == 2                \* VOL = 0.02
DT_PCT == 5                 \* DT = 0.05

UNITS_PER_DOLLAR_2 == 4000
UNITS_PER_DOLLAR_3 == 40000000

SIDES == <<"A", "B">>
Sides == {"A", "B"}

MAX_POSITION == IF variant = V2 THEN MAX_POSITION_2 ELSE MAX_POSITION_3
UnitsPerDollar == IF variant = V2 THEN UNITS_PER_DOLLAR_2 ELSE UNITS_PER_DOLLAR_3

\* The coin the strategy trades.
COIN == IF variant = V2 THEN "ARB" ELSE "INJ"

---------------------------------------------------------------------------
(* Values *)

None == [known |-> FALSE]
Known(v) == [known |-> TRUE, szi |-> v]

Cancelled == [type |-> "cancelled"]
InFlightOrder(t) == [type |-> "in_flight_order", time |-> t]
Resting(px, oid) == [type |-> "resting", px |-> px, oid |-> oid]
Gap(px, oid) == [type |-> "gap", px |-> px, oid |-> oid]

StateTypes == {"cancelled", "in_flight_order", "resting", "gap"}

Abs(x) == IF x < 0 THEN -x ELSE x

side_to_int(side) == IF side = "A" THEN 1 ELSE -1

\* Books: best bid and best ask, levels[0][0]["px"] and levels[1][0]["px"].
Book(bid, ask) == [bid |-> bid, ask |-> ask]

\* The depth variant's books, in dollars: 1000/1001 and the gap 1000/1004.
BooksDepth ==
    { Book(1000 * UNITS_PER_DOLLAR_2, 1001 * UNITS_PER_DOLLAR_2),
      Book(1000 * UNITS_PER_DOLLAR_2, 1004 * UNITS_PER_DOLLAR_2) }

\* The Avellaneda-Stoikov variant's books, in cents: 10.00/10.01 and 10.00/10.03.
BooksStoch ==
    { Book(1000 * (UNITS_PER_DOLLAR_3 \div 100), 1001 * (UNITS_PER_DOLLAR_3 \div 100)),
      Book(1000 * (UNITS_PER_DOLLAR_3 \div 100), 1003 * (UNITS_PER_DOLLAR_3 \div 100)) }

Books == IF variant = V2 THEN BooksDepth ELSE BooksStoch

---------------------------------------------------------------------------
(* Quote arithmetic *)

\* float(f"{x:.5g}"): x rounded to 5 significant digits, ties to even.  The
\* quantum is the value of the fifth digit of x, for x of 10 dollars and more.
Quantum(x) ==
    LET dollars == x \div UnitsPerDollar
    IN  IF dollars < 100 THEN UnitsPerDollar \div 1000
        ELSE IF dollars < 1000 THEN UnitsPerDollar \div 100
        ELSE IF dollars < 10000 THEN UnitsPerDollar \div 10
        ELSE UnitsPerDollar

Round5g(x) ==
    LET q == Quantum(x)
        lo == (x \div q) * q
        r == x - lo
    IN  IF 2 * r < q THEN lo
        ELSE IF 2 * r > q THEN lo + q
        ELSE IF (x \div q) % 2 = 0 THEN lo ELSE lo + q

\* basic_adding_2: book_price, ideal_distance, ideal_price of a side.
BookPrice(book, side) == IF side = "A" THEN book.ask ELSE book.bid

IdealDistance(book, side) == (BookPrice(book, side) * DEPTH_NUM) \div DEPTH_DEN

IdealPriceDepth(book, side) ==
    BookPrice(book, side) + IdealDistance(book, side) * side_to_int(side)

GapCondition(book, side) == book.ask - book.bid > 2 * IdealDistance(book, side)

GapPrice(book, side) ==
    IF side = "A"
    THEN book.bid + (IdealDistance(book, side) * 3) \div 2
    ELSE book.ask - (IdealDistance(book, side) * 3) \div 2

\* avellaneda_stoikov_market_maker.calculate_quotes, prices only.
\*   m = -gamma * spread / 2
\*   delta = gamma * vol^2 * dt             (1e-7 dollar)
\*   l = k * exp(-r * dt)                   (exp(-x) = 1 - x to within 4e-10)
StoikovM(spread) == -(((spread \div 1000) * GAMMA_PPM) \div 2000)

StoikovDelta ==
    ((GAMMA_PPM * VOL_PCT * VOL_PCT * DT_PCT) * (UNITS_PER_DOLLAR_3 \div 1000000))
        \div 1000000

StoikovL ==
    LET k == K_PPM * (UNITS_PER_DOLLAR_3 \div 1000000)
    IN  k - (k * R_PPM * DT_PCT) \div 100000000

calculate_quotes(mid_price, spread, inventory) ==
    [bid |-> mid_price - StoikovM(spread) - (inventory * StoikovDelta) \div 2 - StoikovL,
     ask |-> mid_price + StoikovM(spread) + (inventory * StoikovDelta) \div 2 + StoikovL]

MidPrice(book) == (book.bid + book.ask) \div 2
Spread(book) == book.ask - book.bid

\* The target price of a side: ideal_price (basic_adding_2) or quote_price
\* (basic_adding_3, from the position read at the top of the side's iteration).
IdealPrice(book, side, lpos) ==
    IF variant = V2
    THEN IdealPriceDepth(book, side)
    ELSE LET quotes == calculate_quotes(MidPrice(book), Spread(book), lpos)
         IN  IF side = "B" THEN quotes.bid ELSE quotes.ask

\* The distance the drift check scales the tolerance by: ideal_distance
\* (basic_adding_2) or spread (basic_adding_3).
DriftScale(book, side) ==
    IF variant = V2 THEN IdealDistance(book, side) ELSE Spread(book)

\* distance > ALLOWABLE_DEVIATION * ideal_distance
Deviates(book, side, lpos, px) ==
    Abs(IdealPrice(book, side, lpos) - px) * DEVIATION_DEN
        > DEVIATION_NUM * DriftScale(book, side)

\* sz = MAX_POSITION + position * side_to_int(side)
OrderSize(pos, side) == MAX_POSITION + pos * side_to_int(side)

\* sz * price < 10
BelowMinNotional(sz, price) == sz * price < MIN_NOTIONAL * UnitsPerDollar

---------------------------------------------------------------------------
(* The websocket thread: on_book_update *)

NoReq == [kind |-> "none"]

\* What the exchange has answered to an order request: nothing yet, or a status
\* that is ok with a resting oid, ok without one, or not ok.
NoAnswer == [status |-> "none"]
RestingAt(oid) == [status |-> "resting", oid |-> oid]
Rejected == [status |-> "rejected"]
NotOk == [status |-> "err"]

\* A cancel request, for the oid the callback read.
CancelReq(oid) == [kind |-> "cancel", oid |-> oid]

\* An order request: `from` is the type of the side's state when the callback
\* decided to place, `ans` the exchange's answer, on its way back.
OrderReq(side, sz, px, price, from) ==
    [kind |-> "order", side |-> side, sz |-> sz, px |-> px, price |-> price,
     from |-> from, ans |-> NoAnswer]

\* The websocket thread: pc is "idle" (no callback runs), the gateway call
\* on_book_update waits in, or "raised" (an exception left on_book_update);
\* book, side, local (provide_state of line 82) and lpos (position of line 121)
\* are on_book_update's locals, req the call it waits in, cancels and places the
\* requests it has sent for `side` in this call of on_book_update.
WsIdle ==
    [pc |-> "idle", book |-> Book(0, 0), side |-> "A", local |-> Cancelled,
     lpos |-> 0, req |-> NoReq, cancels |-> 0, places |-> 0, err |-> "none"]

\* The state the callback works on: the fields of self it reads and writes and
\* its own locals.
Self ==
    [ps |-> provide_state, pos |-> position,
     reg |-> recently_cancelled_oid_to_time, ws |-> ws]

\* get_timestamp_ms() - provide_state["time"] > 10000
TimedOut(state) == get_timestamp_ms - state.time > IN_FLIGHT_TIMEOUT_MS

\* on_book_update returns.
Return(m) == [m EXCEPT !.ws = WsIdle]

\* An exception leaves on_book_update while it processes a side.
Raise(m, err) == [m EXCEPT !.ws = [WsIdle EXCEPT !.pc = "raised",
                                                  !.side = m.ws.side,
                                                  !.err = err]]

\* response = self.exchange.cancel(COIN, oid): the request is out.
SendCancel(m, pc, oid) ==
    [m EXCEPT !.ws.pc = pc, !.ws.req = CancelReq(oid), !.ws.cancels = @ + 1]

\* The request sent without marking the side in_flight_order first.
SendOrderUnmarked(m, pc, sz, price) ==
    LET side == m.ws.side
    IN  [m EXCEPT !.ws.pc = pc,
                  !.ws.req = OrderReq(side, sz, Round5g(price), price,
                                      m.ps[side].type),
                  !.ws.places = @ + 1]

\* self.provide_state[side] = in_flight_order; response = self.exchange.order(...)
SendOrder(m, pc, sz, price) ==
    LET side == m.ws.side
    IN  [m EXCEPT !.ps[side] = InFlightOrder(get_timestamp_ms),
                  !.ws.pc = pc,
                  !.ws.req = OrderReq(side, sz, Round5g(price), price,
                                      m.ps[side].type),
                  !.ws.places = @ + 1]

\* if response["status"] == "ok": record the cancel, the side is cancelled.
CancelAnswered(m, outcome) ==
    IF outcome = "ok"
    THEN [m EXCEPT !.reg = (m.ws.req.oid :> get_timestamp_ms) @@ m.reg,
                   !.ps[m.ws.side] = Cancelled]
    ELSE m

\* The answer to exchange.order: resting at an oid (the side becomes `type` at
\* the request's px), or a status without "resting" (the side is cancelled and
\* the position forgotten), or a status that is not ok (nothing is written: the
\* side stays in_flight_order).
OrderAnswered(m, type) ==
    LET req == m.ws.req
    IN  IF req.ans.status = "resting"
        THEN [m EXCEPT !.ps[req.side] =
                         [type |-> type, px |-> req.px, oid |-> req.ans.oid]]
        ELSE IF req.ans.status = "rejected"
        THEN [m EXCEPT !.ps[req.side] = Cancelled, !.pos = None]
        ELSE m

\* The guard of a placement that tests the state read at the top of the
\* iteration.
ReadyToPlaceStale(m) == m.ws.local.type = "cancelled"

\* The guard of both placements: the side's state, read again from self.
ReadyToPlace(m) == m.ps[m.ws.side].type = "cancelled"

RECURSIVE SideStart(_, _)

\* The end of a side's iteration of the for loop (also reached by continue):
\* the next side, or on_book_update returns.
SideDone(m) ==
    IF m.ws.side = SIDES[1] THEN SideStart(m, SIDES[2]) ELSE Return(m)

\* "If we aren't providing, maybe place a new order".
MaybePlace(m) ==
    LET side == m.ws.side
        price == IdealPrice(m.ws.book, side, m.ws.lpos)
    IN  IF ~ReadyToPlace(m) THEN SideDone(m)
        ELSE IF variant = V2
        THEN IF ~m.pos.known THEN SideDone(m)
             ELSE IF BelowMinNotional(OrderSize(m.pos.szi, side), price)
             THEN SideDone(m)
             ELSE SendOrder(m, "place", OrderSize(m.pos.szi, side), price)
        ELSE SendOrder(m, "place", OrderSize(m.ws.lpos, side), price)

\* The drift check and the in-flight timeout, on the state read at the top of
\* the iteration.
DriftCheck(m) ==
    LET local == m.ws.local
        side == m.ws.side
    IN  IF local.type = "resting"
        THEN IF Deviates(m.ws.book, side, m.ws.lpos, local.px)
             THEN SendCancel(m, "drift_cancel", local.oid)
             ELSE MaybePlace(m)
        ELSE IF local.type = "in_flight_order"
        THEN IF TimedOut(local)
             THEN MaybePlace([m EXCEPT !.ps[side] = Cancelled])
             ELSE MaybePlace(m)
        ELSE MaybePlace(m)

\* The gap branch's placement (basic_adding_2).
GapPlace(m) ==
    LET side == m.ws.side
        gap_price == GapPrice(m.ws.book, side)
    IN  IF ~ReadyToPlace(m) THEN DriftCheck(m)
        ELSE IF ~m.pos.known THEN SideDone(m)
        ELSE IF BelowMinNotional(OrderSize(m.pos.szi, side), gap_price)
        THEN SideDone(m)
        ELSE SendOrder(m, "gap_place", OrderSize(m.pos.szi, side), gap_price)

\* The gap branch's cancel (basic_adding_2): provide_state["oid"] of a state
\* that is not cancelled; an in_flight_order has no "oid" (KeyError).
GapCheck(m) ==
    LET local == m.ws.local
    IN  IF local.type # "cancelled"
        THEN IF "oid" \notin DOMAIN local THEN Raise(m, "KeyError")
             ELSE SendCancel(m, "gap_cancel", local.oid)
        ELSE GapPlace(m)

\* The top of the for loop's iteration for `side`.
SideStart(m, side) ==
    LET m1 == [m EXCEPT
                 !.ws.side = side,
                 !.ws.local = m.ps[side],
                 !.ws.lpos = IF variant = V3 /\ m.pos.known THEN m.pos.szi ELSE 0,
                 !.ws.req = NoReq,
                 !.ws.cancels = 0,
                 !.ws.places = 0]
    IN  IF variant = V2 /\ GapCondition(m.ws.book, side)
        THEN GapCheck(m1)
        ELSE DriftCheck(m1)

Commit(m) ==
    /\ provide_state' = m.ps
    /\ position' = m.pos
    /\ recently_cancelled_oid_to_time' = m.reg
    /\ ws' = m.ws

\* What the last reconciliation scan did, while no callback and no fill has
\* followed it: `quiet` says that there is such a scan, `listed` are the orders
\* open_orders listed and `orph` the ones of them it cancelled, `extra` the ones
\* it cancelled that the scan before it, as undisturbed, had listed and not
\* cancelled.
ReconNone == [quiet |-> FALSE, listed |-> {}, orph |-> {}, extra |-> {}]

\* A callback ran or a fill happened.
Disturbed == ReconNone

\* The exchange's side of a cancel that it answers ok: the order stops trading;
\* open_orders may list it a little longer.
ExchCancel(orders, oid) ==
    {IF o.oid = oid /\ o.live
     THEN [o EXCEPT !.live = FALSE, !.at = get_timestamp_ms]
     ELSE o : o \in orders}

\* The exchange's side of an order it accepts.
ExchPlace(orders, req, oid) ==
    orders \cup {[oid |-> oid, side |-> req.side, sz |-> req.sz, live |-> TRUE,
                  at |-> get_timestamp_ms]}

\* A cancel is answered ok or not ok, or the call raises.
CancelOutcomes == {"ok", "err", "raise"}

\* A call of exchange.order returns the exchange's answer or raises.
OrderOutcomes == {"return", "raise"}

\* What a cancel leaves at the exchange.
CancelAtExchange(outcome) ==
    /\ exch_orders' =
         IF outcome = "ok" THEN ExchCancel(exch_orders, ws.req.oid) ELSE exch_orders
    /\ UNCHANGED <<exch_position, next_oid, pending_fills>>

WsFrame == UNCHANGED <<reconnect, variant, poller, fill_unrefreshed>>

\* on_book_update is called with a book of COIN.
OnBookUpdate(book) ==
    /\ ws.pc = "idle"
    /\ Commit(SideStart([Self EXCEPT !.ws.book = book], SIDES[1]))
    /\ recon' = Disturbed
    /\ UNCHANGED <<exch_orders, exch_position, next_oid, pending_fills>>
    /\ WsFrame

\* The gap branch's cancel returns.
GapCancelResponse(outcome) ==
    /\ ws.pc = "gap_cancel"
    /\ Commit(IF outcome = "raise" THEN Raise(Self, "gateway")
              ELSE GapPlace(CancelAnswered(Self, outcome)))
    /\ CancelAtExchange(outcome)
    /\ recon' = Disturbed
    /\ WsFrame

\* The gap branch's order returns, or the call raises.
GapPlaceResponse(outcome) ==
    /\ ws.pc = "gap_place"
    /\ outcome = "return" => ws.req.ans # NoAnswer
    /\ Commit(IF outcome = "raise" THEN Raise(Self, "gateway")
              ELSE DriftCheck(OrderAnswered(Self, "gap")))
    /\ recon' = Disturbed
    /\ UNCHANGED <<exch_orders, exch_position, next_oid, pending_fills>>
    /\ WsFrame

\* The drift check's cancel returns.
DriftCancelResponse(outcome) ==
    /\ ws.pc = "drift_cancel"
    /\ Commit(IF outcome = "raise" THEN Raise(Self, "gateway")
              ELSE MaybePlace(CancelAnswered(Self, outcome)))
    /\ CancelAtExchange(outcome)
    /\ recon' = Disturbed
    /\ WsFrame

\* The order returns, or the call raises.
PlaceResponse(outcome) ==
    /\ ws.pc = "place"
    /\ outcome = "return" => ws.req.ans # NoAnswer
    /\ Commit(IF outcome = "raise" THEN Raise(Self, "gateway")
              ELSE SideDone(OrderAnswered(Self, "resting")))
    /\ recon' = Disturbed
    /\ UNCHANGED <<exch_orders, exch_position, next_oid, pending_fills>>
    /\ WsFrame

\* The exception that left on_book_update reaches the websocket thread, which
\* goes on with the next message.
CallbackRaised ==
    /\ ws.pc = "raised"
    /\ ws' = WsIdle
    /\ recon' = Disturbed
    /\ UNCHANGED <<reconnect, variant, position, provide_state,
                   recently_cancelled_oid_to_time, poller, exch_orders,
                   exch_position, next_oid, pending_fills, fill_unrefreshed>>

\* on_user_events: a fill notification is delivered; self.position = None.
OnUserEvents ==
    /\ ws.pc = "idle"
    /\ pending_fills > 0
    /\ pending_fills' = pending_fills - 1
    /\ position' = None
    /\ fill_unrefreshed' = TRUE
    /\ recon' = Disturbed
    /\ UNCHANGED <<reconnect, variant, provide_state, recently_cancelled_oid_to_time,
                   ws, poller, exch_orders, exch_position, next_oid>>

---------------------------------------------------------------------------
(* The poll thread *)

\* The poll thread: pc is "sleep" (time.sleep, or not started), "cancel" (the
\* loop over open_orders, `todo` the listed orders still to cancel),
\* "user_state" (the call of info.user_state), "set_position" (the call has
\* been served, `szi` its answer) or "dead" (an exception left poll).
PollerStart == [pc |-> "sleep", wake |-> get_timestamp_ms, todo |-> {}, szi |-> None]

\* ok_oids: the keys of recently_cancelled_oid_to_time and the oid of every side
\* that is resting (basic_adding_2: or gap).
OkTypes == IF variant = V2 THEN {"resting", "gap"} ELSE {"resting"}

OkOids ==
    DOMAIN recently_cancelled_oid_to_time
        \cup {provide_state[s].oid : s \in {t \in Sides : provide_state[t].type \in OkTypes}}

\* The COIN orders open_orders lists.
ListedOids == {o.oid : o \in exch_orders}

\* The account's open orders in other coins, which other programs place and
\* cancel: open_orders lists any of them.
OTHER_COIN == "BTC"
OtherOids == {MaxOid + 1}

\* The answer of info.open_orders.
OpenOrders(others) ==
    {[coin |-> COIN, oid |-> oid] : oid \in ListedOids}
        \cup {[coin |-> OTHER_COIN, oid |-> oid] : oid \in others}

\* The orders the loop would cancel if it did not look at their coin.
OrphansAnyCoin(open_orders, ok_oids) ==
    {o.oid : o \in {q \in open_orders : q.oid \notin ok_oids}}

\* The orders the loop over open_orders cancels.
Orphans(open_orders, ok_oids) ==
    {o.oid : o \in {q \in open_orders : q.coin = COIN /\ q.oid \notin ok_oids}}

\* The condition of the comprehension that rebuilds
\* recently_cancelled_oid_to_time.
KeepsEntry(current_time, timestamp) == current_time - timestamp > RETENTION_MS

Pruned(reg, current_time) ==
    [oid \in {o \in DOMAIN reg : KeepsEntry(current_time, reg[o])} |-> reg[oid]]

\* A poll step after the scan: the comparison of the last two scans is over.
ScanCompared == [recon EXCEPT !.extra = {}]

\* The loop over open_orders with `todo` left to cancel: the next cancel, or
\* the loop is over, recently_cancelled_oid_to_time is rebuilt and
\* info.user_state is called.
LoopOver(todo) ==
    IF todo = {}
    THEN /\ poller' = [poller EXCEPT !.pc = "user_state", !.todo = {}]
         /\ recently_cancelled_oid_to_time' =
              Pruned(recently_cancelled_oid_to_time, get_timestamp_ms)
    ELSE /\ poller' = [poller EXCEPT !.pc = "cancel", !.todo = todo]
         /\ UNCHANGED recently_cancelled_oid_to_time

\* open_orders = self.info.open_orders(...) returns and ok_oids is built: the
\* loop cancels the listed orders that are not in ok_oids.
PollOpenOrders(outcome, others) ==
    /\ poller.pc = "sleep"
    /\ get_timestamp_ms >= poller.wake
    /\ IF outcome = "raise"
       THEN /\ poller' = [poller EXCEPT !.pc = "dead"]
            /\ recon' = ScanCompared
            /\ UNCHANGED recently_cancelled_oid_to_time
       ELSE /\ LoopOver(Orphans(OpenOrders(others), OkOids))
            /\ recon' = IF ws.pc = "idle"
                        THEN [quiet |-> TRUE,
                              listed |-> ListedOids,
                              orph |-> ListedOids \ OkOids,
                              extra |-> (ListedOids \ OkOids)
                                          \cap (recon.listed \ recon.orph)]
                        ELSE ReconNone
    /\ UNCHANGED <<reconnect, variant, position, provide_state, ws, exch_orders,
                   exch_position, next_oid, pending_fills, fill_unrefreshed>>

\* self.exchange.cancel(open_order["coin"], open_order["oid"]) for one listed
\* order that is not in ok_oids; the response is not looked at.
PollCancel(oid, outcome) ==
    /\ poller.pc = "cancel"
    /\ oid \in poller.todo
    /\ IF outcome = "raise"
       THEN /\ poller' = [poller EXCEPT !.pc = "dead", !.todo = {}]
            /\ UNCHANGED recently_cancelled_oid_to_time
       ELSE LoopOver(poller.todo \ {oid})
    /\ exch_orders' = IF outcome = "ok" THEN ExchCancel(exch_orders, oid) ELSE exch_orders
    /\ recon' = ScanCompared
    /\ UNCHANGED <<reconnect, variant, position, provide_state, ws, exch_position,
                   next_oid, pending_fills, fill_unrefreshed>>

\* The exchange serves info.user_state: assetPositions holds COIN's position; an
\* account that holds none may have no entry for COIN.
PollUserState(outcome, listed) ==
    /\ poller.pc = "user_state"
    /\ listed \/ exch_position = 0
    /\ poller' = IF outcome = "raise" THEN [poller EXCEPT !.pc = "dead"]
                 ELSE [poller EXCEPT !.pc = "set_position",
                                     !.szi = IF listed THEN Known(exch_position)
                                             ELSE None]
    /\ recon' = ScanCompared
    /\ UNCHANGED <<reconnect, variant, position, provide_state,
                   recently_cancelled_oid_to_time, ws, exch_orders,
                   exch_position, next_oid, pending_fills, fill_unrefreshed>>

\* info.user_state returns: the loop over assetPositions sets self.position;
\* time.sleep(10).
PollSetPosition ==
    /\ poller.pc = "set_position"
    /\ position' = IF poller.szi.known THEN poller.szi ELSE position
    /\ fill_unrefreshed' = IF poller.szi.known THEN FALSE ELSE fill_unrefreshed
    /\ poller' = [pc |-> "sleep", wake |-> get_timestamp_ms + POLL_SLEEP_MS,
                  todo |-> {}, szi |-> None]
    /\ UNCHANGED <<reconnect, variant, provide_state, recently_cancelled_oid_to_time,
                   ws, exch_orders, exch_position, next_oid, pending_fills,
                   recon>>

---------------------------------------------------------------------------
(* The exchange and the clock *)

\* The exchange answers the order request the websocket thread waits in: the
\* order rests at a new oid, or is refused with a status that is ok or not ok.
ExchOrder(answer) ==
    /\ ws.pc \in {"place", "gap_place"}
    /\ ws.req.ans = NoAnswer
    /\ IF answer = "resting"
       THEN /\ ws.req.sz > 0
            /\ next_oid <= MaxOid
            /\ ws' = [ws EXCEPT !.req.ans = RestingAt(next_oid)]
            /\ exch_orders' = ExchPlace(exch_orders, ws.req, next_oid)
            /\ next_oid' = next_oid + 1
       ELSE /\ ws' = [ws EXCEPT !.req.ans = IF answer = "rejected" THEN Rejected
                                            ELSE NotOk]
            /\ UNCHANGED <<exch_orders, next_oid>>
    /\ UNCHANGED <<reconnect, variant, position, provide_state,
                   recently_cancelled_oid_to_time, poller, exch_position,
                   pending_fills, fill_unrefreshed, recon>>

\* The amounts the exchange fills of an order: all of it.
FillAmounts(o) == {o.sz}

\* The exchange fills a live order and sends the fill notification.
ExchFill(o, amt) ==
    /\ o \in exch_orders
    /\ o.live
    /\ amt > 0
    /\ amt <= o.sz
    /\ pending_fills < MaxPendingFills
    /\ exch_orders' = (exch_orders \ {o})
                        \cup (IF amt = o.sz THEN {} ELSE {[o EXCEPT !.sz = @ - amt]})
    /\ exch_position' = exch_position + (IF o.side = "B" THEN amt ELSE -amt)
    /\ pending_fills' = pending_fills + 1
    /\ recon' = Disturbed
    /\ UNCHANGED <<reconnect, variant, position, provide_state,
                   recently_cancelled_oid_to_time, ws, poller, next_oid,
                   fill_unrefreshed>>

\* A cancelled order leaves the open orders.
ExchDrop(o) ==
    /\ o \in exch_orders
    /\ ~o.live
    /\ exch_orders' = exch_orders \ {o}
    /\ UNCHANGED <<reconnect, variant, position, provide_state,
                   recently_cancelled_oid_to_time, ws, poller, exch_position,
                   next_oid, pending_fills, fill_unrefreshed, recon>>

\* A timestamp one step of the clock later, for one that is compared with
\* `threshold`.
Aged(t, threshold) ==
    IF t - TICK_MS < get_timestamp_ms - (threshold + TICK_MS)
    THEN get_timestamp_ms - (threshold + TICK_MS)
    ELSE t - TICK_MS

AgedState(state) ==
    IF state.type = "in_flight_order"
    THEN InFlightOrder(Aged(state.time, IN_FLIGHT_TIMEOUT_MS))
    ELSE state

\* An order at the exchange one step of the clock later.
AgedOrder(o) ==
    IF o.live THEN o ELSE [o EXCEPT !.at = Aged(@, LISTING_LAG_MS)]

\* open_orders lists a cancelled order for less than LISTING_LAG_MS.
StillListed(o) == o.live \/ get_timestamp_ms - o.at < LISTING_LAG_MS

\* The clock moves by one step, while no callback runs and poll sleeps.
Tick ==
    /\ ws.pc = "idle"
    /\ poller.pc \in {"sleep", "dead"}
    /\ \A o \in exch_orders : StillListed(AgedOrder(o))
    /\ provide_state' = [s \in Sides |-> AgedState(provide_state[s])]
    /\ recently_cancelled_oid_to_time' =
         [oid \in DOMAIN recently_cancelled_oid_to_time |->
            Aged(recently_cancelled_oid_to_time[oid], RETENTION_MS)]
    /\ exch_orders' = {AgedOrder(o) : o \in exch_orders}
    /\ poller' = [poller EXCEPT
                    !.wake = IF @ - TICK_MS < get_timestamp_ms
                             THEN get_timestamp_ms ELSE @ - TICK_MS]
    /\ UNCHANGED <<reconnect, variant, position, ws, exch_position,
                   next_oid, pending_fills, fill_unrefreshed, recon>>

---------------------------------------------------------------------------
(* basic_adding_3: reconnect and connect *)

\* The seconds reconnect sleeps between two attempts.
RECONNECT_DELAY_S == 5

\* The default of the constructor's reconnect_attempts.
DEFAULT_RECONNECT_ATTEMPTS == 5

\* The call of reconnect() on a BasicAdder built with reconnect_attempts = n:
\* attempt is the local of that name; calls, fails, slept and started count the
\* calls of connect, the calls that raised, the seconds slept and the poll
\* threads started; poller is self.poller ("None", or the thread "alive" or
\* "dead").
ReconnectStart(n) ==
    [pc |-> "while", reconnect_attempts |-> n, attempt |-> 0, calls |-> 0,
     fails |-> 0, slept |-> 0, started |-> 0, poller |-> "None"]

\* The call main made, as the strategy runs: the first connect succeeded.
ReconnectDone ==
    [ReconnectStart(DEFAULT_RECONNECT_ATTEMPTS) EXCEPT
        !.pc = "returned", !.calls = 1, !.started = 1, !.poller = "alive"]

\* The test a retry waits behind, written with the wrong comparison.
RetryGuardInclusive(attempt, n) == attempt <= n

\* while attempt < self.reconnect_attempts
LoopGuard(attempt, n) == attempt < n

\* if attempt < self.reconnect_attempts: sleep and try again, else re-raise
RetryGuard(attempt, n) == attempt < n

\* The except clause of reconnect's loop.
Except(r) ==
    LET attempt == r.attempt + 1
    IN  [r EXCEPT !.attempt = attempt, !.fails = @ + 1,
                  !.pc = IF RetryGuard(attempt, r.reconnect_attempts)
                         THEN "sleep" ELSE "raised"]

ReconnectFrame ==
    UNCHANGED <<variant, position, provide_state, recently_cancelled_oid_to_time,
                ws, poller, exch_orders, exch_position, next_oid, pending_fills,
                fill_unrefreshed, recon>>

\* One call of connect's body, which returns or raises.
ConnectCall(pc, next, outcome) ==
    /\ reconnect.pc = pc
    /\ reconnect' = IF outcome = "ok" THEN [reconnect EXCEPT !.pc = next]
                                      ELSE Except(reconnect)
    /\ ReconnectFrame

\* The loop test: another call of connect, or the end of the loop.
ReconnectWhile ==
    /\ reconnect.pc = "while"
    /\ reconnect' =
         IF LoopGuard(reconnect.attempt, reconnect.reconnect_attempts)
         THEN [reconnect EXCEPT !.pc = "info", !.calls = @ + 1]
         ELSE [reconnect EXCEPT !.pc = "returned"]
    /\ ReconnectFrame

ConnectInfo(outcome) == ConnectCall("info", "exchange", outcome)

ConnectExchange(outcome) == ConnectCall("exchange", "subscribe_book", outcome)

ConnectSubscribeBook(outcome) ==
    ConnectCall("subscribe_book", "subscribe_user", outcome)

ConnectSubscribeUser(outcome) == ConnectCall("subscribe_user", "poller", outcome)

\* The last statement of connect starts a poll thread unless one is alive;
\* connect returns and reconnect leaves its loop.
ConnectPoller ==
    /\ reconnect.pc = "poller"
    /\ reconnect' =
         IF reconnect.poller # "alive"
         THEN [reconnect EXCEPT !.pc = "returned", !.poller = "alive",
                                !.started = @ + 1]
         ELSE [reconnect EXCEPT !.pc = "returned"]
    /\ ReconnectFrame

ReconnectSleep ==
    /\ reconnect.pc = "sleep"
    /\ reconnect' = [reconnect EXCEPT !.pc = "while", !.slept = @ + RECONNECT_DELAY_S]
    /\ ReconnectFrame

\* An exception leaves poll and its thread ends.
PollerDies ==
    /\ reconnect.poller = "alive"
    /\ reconnect' = [reconnect EXCEPT !.poller = "dead"]
    /\ ReconnectFrame

---------------------------------------------------------------------------
(* The system *)

\* BasicAdder.__init__ has run (basic_adding_3: and connect), the account is
\* flat and has no open order.
Init ==
    /\ variant \in {V2, V3}
    /\ position = None
    /\ provide_state = [s \in Sides |-> Cancelled]
    /\ recently_cancelled_oid_to_time = <<>>
    /\ ws = WsIdle
    /\ poller = PollerStart
    /\ exch_orders = {}
    /\ exch_position = 0
    /\ next_oid = 1
    /\ pending_fills = 0
    /\ fill_unrefreshed = FALSE
    /\ recon = ReconNone
    /\ reconnect = ReconnectDone

\* The steps of BasicAdder's two threads.
Program ==
    \/ \E book \in Books : OnBookUpdate(book)
    \/ \E outcome \in CancelOutcomes : DriftCancelResponse(outcome)
    \/ \E outcome \in OrderOutcomes : PlaceResponse(outcome)
    \/ CallbackRaised
    \/ OnUserEvents
    \/ \E outcome \in {"ok", "raise"}, others \in SUBSET OtherOids :
          PollOpenOrders(outcome, others)
    \/ \E oid \in poller.todo, outcome \in CancelOutcomes : PollCancel(oid, outcome)
    \/ \E outcome \in {"ok", "raise"}, listed \in BOOLEAN : PollUserState(outcome, listed)
    \/ PollSetPosition

\* The steps of the gap branch of basic_adding_2's on_book_update.
GapBranch ==
    \/ \E outcome \in CancelOutcomes : GapCancelResponse(outcome)
    \/ \E outcome \in OrderOutcomes : GapPlaceResponse(outcome)

\* The steps of the exchange and of the clock.
Environment ==
    \/ \E answer \in {"resting", "rejected", "err"} : ExchOrder(answer)
    \/ \E o \in exch_orders : \E amt \in FillAmounts(o) : ExchFill(o, amt)
    \/ \E o \in exch_orders : ExchDrop(o)
    \/ Tick

Next == Program \/ GapBranch \/ Environment

NextStoch == Program \/ Environment

Spec == Init /\ [][Next]_vars

\* basic_adding_2 alone, and basic_adding_3 alone, which has no gap branch.
InitDepth == Init /\ variant = V2
InitStoch == Init /\ variant = V3

SpecDepth == InitDepth /\ [][Next]_vars
SpecStoch == InitStoch /\ [][NextStoch]_vars

\* The websocket thread and the poll thread of basic_adding_2 while no gateway
\* call raises: every callback comes to its end and poll never stops.
WsThread ==
    \/ \E book \in Books : OnBookUpdate(book)
    \/ \E outcome \in {"ok", "err"} : GapCancelResponse(outcome)
    \/ GapPlaceResponse("return")
    \/ \E outcome \in {"ok", "err"} : DriftCancelResponse(outcome)
    \/ PlaceResponse("return")
    \/ CallbackRaised
    \/ OnUserEvents

PollThread ==
    \/ \E others \in SUBSET OtherOids : PollOpenOrders("ok", others)
    \/ \E oid \in poller.todo, outcome \in {"ok", "err"} : PollCancel(oid, outcome)
    \/ \E listed \in BOOLEAN : PollUserState("ok", listed)
    \/ PollSetPosition

NextRepair == WsThread \/ PollThread \/ Environment

\* Fair scheduling: book updates keep arriving and the websocket thread runs
\* its callbacks, the poll thread runs its cycles, the exchange answers every
\* order request and delists the orders it cancelled, and time passes.
SpecRepair ==
    /\ InitDepth
    /\ [][NextRepair]_vars
    /\ WF_vars(WsThread)
    /\ WF_vars(PollThread)
    /\ WF_vars(\E answer \in {"resting", "rejected", "err"} : ExchOrder(answer))
    /\ WF_vars(\E o \in exch_orders : ExchDrop(o))
    /\ SF_vars(Tick)

\* main's call of reconnect, from the constructor's return to the end of the
\* call, for every positive reconnect_attempts up to MaxReconnectAttempts.
InitReconnect ==
    /\ variant = V3
    /\ position = None
    /\ provide_state = [s \in Sides |-> Cancelled]
    /\ recently_cancelled_oid_to_time = <<>>
    /\ ws = WsIdle
    /\ poller = PollerStart
    /\ exch_orders = {}
    /\ exch_position = 0
    /\ next_oid = 1
    /\ pending_fills = 0
    /\ fill_unrefreshed = FALSE
    /\ recon = ReconNone
    /\ \E n \in 1..MaxReconnectAttempts : reconnect = ReconnectStart(n)

Reconnecting ==
    \/ ReconnectWhile
    \/ \E outcome \in {"ok", "raise"} : ConnectInfo(outcome)
    \/ \E outcome \in {"ok", "raise"} : ConnectExchange(outcome)
    \/ \E outcome \in {"ok", "raise"} : ConnectSubscribeBook(outcome)
    \/ \E outcome \in {"ok", "raise"} : ConnectSubscribeUser(outcome)
    \/ ConnectPoller
    \/ ReconnectSleep

NextReconnect == Reconnecting \/ PollerDies

\* Every call connect makes returns or raises, and every sleep ends.
SpecReconnect ==
    InitReconnect /\ [][NextReconnect]_vars /\ WF_vars(Reconnecting)

---------------------------------------------------------------------------
(* Properties *)

\* on_book_update waits in a call of exchange.order.
Placing == ws.pc \in {"place", "gap_place"}

\* on_book_update waits in a call of exchange.cancel for `side`.
Cancelling(side) == ws.pc \in {"gap_cancel", "drift_cancel"} /\ ws.side = side

\* The position on_book_update computes with when it is called.
PositionRead == IF variant = V3 /\ position.known THEN position.szi ELSE 0

\* C1: from a delivered fill until poll next sets the position to a known value,
\* on_book_update issues no place-order request.
C1_FillInvalidation == Placing => ~fill_unrefreshed

\* C2: the account's signed position stays within [-MAX_POSITION, MAX_POSITION].
C2_PositionLimit == Abs(exch_position) <= MAX_POSITION

\* C3: every side's state is one of cancelled, in_flight_order, resting and gap,
\* and a place-order request is issued for a side only when the side's state is
\* cancelled.
C3_OneStatePerSide ==
    /\ \A s \in Sides : provide_state[s].type \in StateTypes
    /\ Placing => /\ ws.req.from = "cancelled"
                  /\ provide_state[ws.req.side].type = "in_flight_order"

\* A side that rested at the top of its iteration was cancelled, and its new
\* order requested.
C3_Witness ==
    /\ ws.pc = "place"
    /\ ws.local.type = "resting"
    /\ ws.cancels = 1
    /\ ws.req.from = "cancelled"

\* poll rebuilds recently_cancelled_oid_to_time in this step.
Prunes == poller.pc # "user_state" /\ poller'.pc = "user_state"

\* C4: a prune keeps every registry entry that is at most 30 s old and removes
\* every entry that is older.
C4_RegistryRetention ==
    [][Prunes =>
         \A oid \in DOMAIN recently_cancelled_oid_to_time :
            oid \in DOMAIN recently_cancelled_oid_to_time'
              <=> get_timestamp_ms - recently_cancelled_oid_to_time[oid]
                    <= RETENTION_MS]_vars

\* C5: of two consecutive reconciliation cycles with no callback and no fill
\* between them, the second cancels no order that the first listed and did not
\* cancel.
C5_ReconciliationIdempotent == recon.extra = {}

\* The ideal (target) distance of a side's quote from the book price.
TargetDistance(book, side, lpos) ==
    Abs(IdealPrice(book, side, lpos) - BookPrice(book, side))

\* |p' - p| > t * d
BeyondTolerance(book, side, lpos, px) ==
    Abs(IdealPrice(book, side, lpos) - px) * DEVIATION_DEN
        > DEVIATION_NUM * TargetDistance(book, side, lpos)

\* C6: on a book update that finds the side it handles first resting at p, a
\* cancel request for that order is issued if and only if |p' - p| > t * d, for
\* the ideal price p' and the ideal distance d of the book.
C6_DeviationThreshold ==
    [][\A book \in Books :
         (/\ provide_state[SIDES[1]].type = "resting"
          /\ OnBookUpdate(book))
         => (Cancelling(SIDES[1])'
               <=> BeyondTolerance(book, SIDES[1], PositionRead,
                                   provide_state[SIDES[1]].px))]_vars

\* C7: on a book update that finds the side it handles first in flight for more
\* than 10 s, whatever the book, no exception leaves on_book_update, no cancel
\* request is issued for the side, and the side is cancelled: it is cancelled
\* still, or a new order has been requested for it from cancelled.
C7_StalePending ==
    [][\A book \in Books :
         (/\ provide_state[SIDES[1]].type = "in_flight_order"
          /\ TimedOut(provide_state[SIDES[1]])
          /\ OnBookUpdate(book))
         => /\ ws'.pc # "raised"
            /\ ~Cancelling(SIDES[1])'
            /\ \/ provide_state'[SIDES[1]] = Cancelled
               \/ /\ Placing'
                  /\ ws'.req.side = SIDES[1]
                  /\ ws'.req.from = "cancelled"]_vars

\* sz * price < 10, for a size and a price whose product is large.
NotionalBelowMinimum(sz, price) ==
    \/ sz <= 0
    \/ price < (MIN_NOTIONAL * UnitsPerDollar + sz - 1) \div sz

\* C8: no place-order request is issued for an order whose notional size * price
\* is below the minimum notional; no order of zero or negative size is submitted.
C8_MinimumNotional ==
    Placing => /\ ~NotionalBelowMinimum(ws.req.sz, ws.req.price)
               /\ ws.req.sz > 0

\* C9: the gap order of the bid side is priced, before rounding, at
\* bestBid + 1.5 * d, for the ideal distance d.
C9_GapStraddlePrice ==
    (ws.pc = "gap_place" /\ ws.req.side = "B")
        => ws.req.price = ws.book.bid + (IdealDistance(ws.book, "B") * 3) \div 2

\* C10: no failing step of a reconciliation cycle ends the poll thread.
C10_PollNeverStops == poller.pc # "dead"


\* reconnect() has returned to main or raised into it.
ReconnectEnded == reconnect.pc \in {"returned", "raised"}

\* C11: reconnect() terminates; it calls connect() at most reconnect_attempts
\* times and sleeps RECONNECT_DELAY_S seconds between two attempts; it stops at
\* the first attempt that succeeds, so a call that returned made exactly one
\* successful call of connect, its last; it raises to its caller if and only
\* if every attempt failed; and over all attempts at most one poll thread is
\* started, hence at most one is ever alive.
C11_ReconnectBounded ==
    /\ [](/\ reconnect.calls <= reconnect.reconnect_attempts
          /\ reconnect.slept = RECONNECT_DELAY_S *
                (IF reconnect.pc \in {"sleep", "raised"}
                 THEN reconnect.fails - 1 ELSE reconnect.fails)
          /\ reconnect.pc = "returned" => reconnect.calls = reconnect.fails + 1
          /\ ReconnectEnded =>
                (reconnect.pc = "raised" <=>
                    /\ reconnect.fails = reconnect.calls
                    /\ reconnect.calls = reconnect.reconnect_attempts)
          /\ reconnect.started <= 1
          /\ reconnect.pc = "raised" => reconnect.started = 0)
    /\ <>ReconnectEnded

\* reconnect() returned after two failed attempts and its poll thread runs.
C11_Witness ==
    /\ reconnect.pc = "returned"
    /\ reconnect.fails = 2
    /\ reconnect.slept = 2 * RECONNECT_DELAY_S
    /\ reconnect.poller = "alive"


\* C12: within one invocation of on_book_update each side sends at most one
\* cancel request and at most one place-order request; in particular the
\* drift check sends no second cancel after the gap check sent one.
C12_OneCancelOnePlace == ws.cancels <= 1 /\ ws.places <= 1


\* The call of exchange.order returns the answer `ans` of the exchange and
\* on_book_update goes on.
OrderReturns(ans) ==
    /\ Placing
    /\ ws.req.ans = ans
    /\ ws' # ws
    /\ ws'.err # "gateway"

\* C13: when exchange.order returns an ok response whose status is not
\* "resting", the side becomes cancelled and the position unknown, and the
\* invocation that handled the response issues no place-order request on any
\* side (the position is unknown until poll sets it).
C13_AmbiguousAck ==
    [][OrderReturns(Rejected) =>
          /\ provide_state'[ws.req.side] = Cancelled
          /\ position' = None
          /\ ~Placing']_vars


\* The call of exchange.order raises.
OrderRaises == Placing /\ ws'.err = "gateway"

\* C14: when a place-order request fails (exchange.order returns a status that
\* is not ok, or raises), the side is left in the state it had before the
\* request, cancelled, so that the next on_book_update can place for it at
\* once.
C14_TransientFailure ==
    [][OrderReturns(NotOk) \/ OrderRaises =>
          provide_state'[ws.req.side] = Cancelled]_vars


\* The signed position of the account in COIN that the user_state answer poll
\* holds reports: the szi of COIN's entry, or none (zero) without an entry.
ReportedPosition == IF poller.szi.known THEN poller.szi.szi ELSE 0

\* C15: a poll cycle whose queries succeeded ends with the position known and
\* equal to the position the exchange reported, also when the account holds no
\* position in COIN.
C15_PositionRefresh ==
    [][poller.pc = "set_position" /\ poller'.pc = "sleep" =>
          position' = Known(ReportedPosition)]_vars


\* The oids the sides' resting and gap states refer to.
ReferencedOids ==
    {provide_state[s].oid :
        s \in {t \in Sides : provide_state[t].type \in {"resting", "gap"}}}

\* C16: a poll cycle decides to cancel exactly the listed open orders of COIN
\* whose oid is neither referenced by a side's resting or gap state nor a key
\* of recently_cancelled_oid_to_time, and each cancel it then sends is for one
\* of them and touches no other order; orders of other coins and expected
\* orders get no cancel.
C16_OrphanCleanup ==
    [][/\ \A others \in SUBSET OtherOids :
            PollOpenOrders("ok", others) =>
                poller'.todo =
                    {o.oid : o \in {q \in OpenOrders(others) :
                        /\ q.coin = COIN
                        /\ q.oid \notin ReferencedOids
                        /\ q.oid \notin DOMAIN recently_cancelled_oid_to_time}}
       /\ poller.pc = "cancel" /\ poller' # poller /\ poller'.pc # "dead" =>
            \E oid \in poller.todo :
                /\ poller'.todo = poller.todo \ {oid}
                /\ {o \in exch_orders' : o.oid # oid}
                      = {o \in exch_orders : o.oid # oid}]_vars

\* poll is about to cancel an order no side refers to, and has left alone a
\* listed order that a side's state refers to.
C16_Witness ==
    /\ poller.pc = "cancel"
    /\ poller.todo # {}
    /\ (ListedOids \ poller.todo) \cap ReferencedOids # {}


\* C17: an acknowledgement never overwrites a state newer than the request it
\* answers.  While on_book_update waits in exchange.order the side is the
\* in_flight_order of that request, and a side becomes resting or gap only
\* when that call returns, with the oid of the answer, over that
\* in_flight_order; so no acknowledgement is processed after the side has left
\* the in_flight_order it belongs to, and the oid of an order whose request
\* was given up (its call raised, the timeout made the side cancelled) is
\* never written over a later state.
C17_LateAck ==
    /\ [](Placing => provide_state[ws.req.side] = InFlightOrder(get_timestamp_ms))
    /\ [][\A s \in Sides :
            /\ provide_state'[s] # provide_state[s]
            /\ provide_state'[s].type \in {"resting", "gap"}
            => /\ OrderReturns(RestingAt(provide_state'[s].oid))
               /\ ws.req.side = s
               /\ provide_state[s].type = "in_flight_order"]_vars

\* The exchange holds a live order for a side whose request was given up, and
\* the side rests with the oid of the placement that followed.
C17_Witness ==
    \E s \in Sides :
        /\ provide_state[s].type = "resting"
        /\ \E o \in exch_orders :
              o.side = s /\ o.live /\ o.oid < provide_state[s].oid


\* |gap_price - p| > t * d, for the gap price and the ideal distance d of the
\* book.
BeyondGapTolerance(book, side, px) ==
    Abs(GapPrice(book, side) - px) * DEVIATION_DEN
        > DEVIATION_NUM * IdealDistance(book, side)

\* C18: the gap check sends a cancel for a side's order only when the order's
\* price differs from the gap price of the book by more than the tolerance; an
\* order that already rests within tolerance of the gap price is left alone.
C18_GapTolerance ==
    ws.pc = "gap_cancel" => BeyondGapTolerance(ws.book, ws.side, ws.local.px)


\* The order `oid` belongs to a side's current placement: it is the order the
\* exchange accepted for the request on_book_update still waits in, or the
\* order a side's resting or gap state refers to.
OwnCurrentOrder(oid) ==
    \/ Placing /\ ws.req.ans = RestingAt(oid)
    \/ oid \in ReferencedOids

\* C20: poll never sends a cancel for an order that belongs to a side's
\* current placement at the time the cancel is sent.
C20_PollSparesOwnOrder ==
    [][\A oid \in poller.todo, outcome \in {"ok", "err"} :
          PollCancel(oid, outcome) => ~OwnCurrentOrder(oid)]_vars


\* The side's state refers to a dead order: it is resting or gap with an oid
\* that is not live at the exchange, or in_flight_order while no request for
\* the side is under way.
DeadReference(s) ==
    \/ /\ provide_state[s].type \in {"resting", "gap"}
       /\ ~\E o \in exch_orders : o.oid = provide_state[s].oid /\ o.live
    \/ /\ provide_state[s].type = "in_flight_order"
       /\ ~(Placing /\ ws.req.side = s)

\* C19: under fair scheduling of book updates and reconciliation cycles, a
\* side whose state refers to a dead order eventually is cancelled again.
C19_DriftRepair ==
    \A s \in Sides : DeadReference(s) ~> provide_state[s] = Cancelled


\* C21: a known position is never older than the last fill: once every fill
\* notification has been processed, a position that is known is the position
\* the account holds, not the answer of a query made before the last fill.
C21_KnownPositionIsFresh ==
    (position.known /\ pending_fills = 0) => position.szi = exch_position


\* The px on_book_update places a side's order at on `book`: the gap price
\* under the gap condition (basic_adding_2), else the target price, rounded to
\* 5 significant digits.
PlacePx(book, side, lpos) ==
    Round5g(IF variant = V2 /\ GapCondition(book, side)
            THEN GapPrice(book, side)
            ELSE IdealPrice(book, side, lpos))

\* C22: for the book on_book_update handles, with best bid below best ask, the
\* price it places the bid-side order at is strictly below the price it places
\* the ask-side order at, for normal quotes and for gap quotes.
C22_NeverCrossesOwnQuotes ==
    (ws.pc # "idle" /\ ws.book.bid < ws.book.ask)
        => PlacePx(ws.book, "B", ws.lpos) < PlacePx(ws.book, "A", ws.lpos)

=============================================================================
